---- MODULE Spec2Model ----
(***************************************************************************)
(* Model of the docker-compose to Easypanel template converter             *)
(* (class ComposeToTemplateConverter, src/unnamed/part_003).               *)
(*                                                                         *)
(* Text is modelled by TLA+ strings, character by character (Len, SubSeq   *)
(* and \o work on strings).  A TLA+ string literal cannot hold a backtick, *)
(* so the backtick character is written "^" throughout (see Backtick); no  *)
(* input of the model contains a "^" of its own.                           *)
(*                                                                         *)
(* A JavaScript object is modelled as the sequence of its <<key, value>>   *)
(* pairs in insertion order (ObjSet, ObjGet, ObjectEntries).  An optional  *)
(* field is a sequence of length 0 (absent) or 1 (present).                *)
(*                                                                         *)
(* yaml.parse gives a number, a boolean or a mapping where the document    *)
(* holds one (ports: [3000], a long-form volume).  Such a value is written *)
(* as the text String() gives for it behind the mark "#" (see NotAString); *)
(* no string of the model starts with "#".                                 *)
(***************************************************************************)
EXTENDS Integers, Sequences, FiniteSets, TLC

VARIABLES
    compose,    \* SpecGen: the parsed compose document under translation
    analysis,   \* SpecGen: result of analyzeServices
    schema,     \* SpecGen: the schema built by generateMetaYaml
    indexTs,    \* SpecGen: the text returned by generateIndexTs
    stage,      \* SpecGen: which generation step has run
    run,        \* Spec: per invocation of convert, its position and inputs
    dirs,       \* Spec: the template directories that exist on disk
    files       \* Spec: the artifacts on disk, per template directory

vars == <<compose, analysis, schema, indexTs, stage, run, dirs, files>>

genVars == <<compose, analysis, schema, indexTs, stage>>
runVars == <<run, dirs, files>>

(***************************************************************************)
(* Bounds                                                                  *)
(***************************************************************************)
\* Largest number of services in a generated compose document.
MaxServices == 2

(***************************************************************************)
(* Strings                                                                 *)
(***************************************************************************)
Backtick == "^"

Char(s, i) == SubSeq(s, i, i)

\* a parsed value that is no string: a number, a boolean, a mapping
NotAString(text) == "#" \o text

\* typeof v === 'string'
IsString(v) == ~(Len(v) > 0 /\ SubSeq(v, 1, 1) = "#")

\* String(v)
String(v) == IF IsString(v) THEN v ELSE SubSeq(v, 2, Len(v))

UpperCase == "ABCDEFGHIJKLMNOPQRSTUVWXYZ"
LowerCase == "abcdefghijklmnopqrstuvwxyz"
DigitChars == "0123456789"

CharIn(c, s) == \E i \in 1..Len(s) : Char(s, i) = c

IndexIn(c, s) == CHOOSE i \in 1..Len(s) : Char(s, i) = c

\* String.prototype.toLowerCase on one character
LowerChar(c) == IF CharIn(c, UpperCase) THEN Char(LowerCase, IndexIn(c, UpperCase)) ELSE c

RECURSIVE toLowerCase(_)
toLowerCase(s) ==
    IF Len(s) = 0 THEN "" ELSE LowerChar(Char(s, 1)) \o toLowerCase(SubSeq(s, 2, Len(s)))

\* String.prototype.includes
includes(s, t) ==
    \E i \in 1..(Len(s) - Len(t) + 1) : SubSeq(s, i, i + Len(t) - 1) = t

\* String.prototype.startsWith
startsWith(s, t) == Len(t) <= Len(s) /\ SubSeq(s, 1, Len(t)) = t

\* number of occurrences of t in s
CountOf(s, t) ==
    Cardinality({i \in 1..(Len(s) - Len(t) + 1) : SubSeq(s, i, i + Len(t) - 1) = t})

(***************************************************************************)
(* JavaScript objects: own string keys in insertion order                  *)
(***************************************************************************)
ObjKeys(obj) == [i \in 1..Len(obj) |-> obj[i][1]]

ObjHas(obj, key) == \E i \in 1..Len(obj) : obj[i][1] = key

ObjGet(obj, key) == obj[CHOOSE i \in 1..Len(obj) : obj[i][1] = key][2]

\* obj[key] = value: an existing key keeps its place and takes the new value
ObjSet(obj, key, value) ==
    IF ObjHas(obj, key)
    THEN [i \in 1..Len(obj) |-> IF obj[i][1] = key THEN <<key, value>> ELSE obj[i]]
    ELSE Append(obj, <<key, value>>)

\* A canonical array index ("0", "7", "12"): such keys are enumerated first,
\* in ascending numeric order, before the other keys in insertion order.
IsArrayIndex(key) ==
    /\ Len(key) > 0
    /\ \A i \in 1..Len(key) : CharIn(Char(key, i), DigitChars)
    /\ (Len(key) > 1 => Char(key, 1) # "0")

RECURSIVE StrToNat(_)
StrToNat(s) ==
    IF Len(s) = 0 THEN 0
    ELSE 10 * StrToNat(SubSeq(s, 1, Len(s) - 1)) + (IndexIn(Char(s, Len(s)), DigitChars) - 1)

RECURSIVE SelectPairs(_, _)
SelectPairs(obj, wantIndex) ==
    IF Len(obj) = 0 THEN <<>>
    ELSE (IF IsArrayIndex(Head(obj)[1]) = wantIndex THEN <<Head(obj)>> ELSE <<>>)
            \o SelectPairs(Tail(obj), wantIndex)

RECURSIVE SortByIndex(_)
SortByIndex(pairs) ==
    IF Len(pairs) = 0 THEN <<>>
    ELSE LET m == CHOOSE i \in 1..Len(pairs) :
                    \A j \in 1..Len(pairs) : StrToNat(pairs[i][1]) <= StrToNat(pairs[j][1])
         IN  <<pairs[m]>> \o
             SortByIndex([k \in 1..(Len(pairs) - 1) |-> IF k < m THEN pairs[k] ELSE pairs[k + 1]])

\* Object.entries
ObjectEntries(obj) == SortByIndex(SelectPairs(obj, TRUE)) \o SelectPairs(obj, FALSE)

(***************************************************************************)
(* Compose documents (interface DockerComposeService / DockerCompose)      *)
(***************************************************************************)
NoEnv == [form |-> "absent"]
EnvMap(entries) == [form |-> "map", entries |-> entries]
EnvList(items) == [form |-> "list", items |-> items]

\* image: <<>> or <<string>>; build: whether a truthy build is declared
Service(image, build, environment, ports, volumes, command) ==
    [image |-> image, build |-> build, environment |-> environment,
     ports |-> ports, volumes |-> volumes, command |-> command]

Plain(image, build) == Service(image, build, NoEnv, <<>>, <<>>, <<>>)

\* service.image as a truthy value
HasImage(service) == service.image # <<>> /\ service.image[1] # ""

(***************************************************************************)
(* analyzeServices                                                         *)
(***************************************************************************)
dbImages == <<"postgres", "mysql", "mariadb", "mongo", "redis", "elasticsearch">>

\* const image = service.image?.toLowerCase() || ''
imageLower(service) == IF service.image = <<>> THEN "" ELSE toLowerCase(service.image[1])

\* the name left out of the test
isDbImageOnly(name, service) ==
    \E k \in 1..Len(dbImages) : includes(imageLower(service), dbImages[k])

\* dbImages.some((db) => image.includes(db) || name.toLowerCase().includes(db))
isDb(name, service) ==
    \E k \in 1..Len(dbImages) :
        \/ includes(imageLower(service), dbImages[k])
        \/ includes(toLowerCase(name), dbImages[k])

EmptyAnalysis == [databases |-> <<>>, apps |-> <<>>, otherServices |-> <<>>]

\* "if" in place of "else if": a database with an image is pushed twice
analyzeStepBoth(acc, name, service) ==
    LET a == IF isDb(name, service)
             THEN [acc EXCEPT !.databases = Append(@, name)] ELSE acc
    IN  IF HasImage(service) \/ service.build
        THEN [a EXCEPT !.apps = Append(@, name)]
        ELSE IF isDb(name, service) THEN a
        ELSE [a EXCEPT !.otherServices = Append(@, name)]

\* one iteration of the for loop of analyzeServices
analyzeStep(acc, name, service) ==
    IF isDb(name, service)
    THEN [acc EXCEPT !.databases = Append(@, name)]
    ELSE IF HasImage(service) \/ service.build
    THEN [acc EXCEPT !.apps = Append(@, name)]
    ELSE [acc EXCEPT !.otherServices = Append(@, name)]

RECURSIVE analyzeLoop(_, _)
analyzeLoop(entries, acc) ==
    IF Len(entries) = 0 THEN acc
    ELSE analyzeLoop(Tail(entries), analyzeStep(acc, Head(entries)[1], Head(entries)[2]))

\* isDb declared outside the loop and never reset
RECURSIVE analyzeLoopSticky(_, _, _)
analyzeLoopSticky(entries, acc, seenDb) ==
    IF Len(entries) = 0 THEN acc
    ELSE LET name == Head(entries)[1]
             service == Head(entries)[2]
             db == seenDb \/ isDb(name, service)
         IN  analyzeLoopSticky(Tail(entries),
                 IF db THEN [acc EXCEPT !.databases = Append(@, name)]
                 ELSE analyzeStep(acc, name, service),
                 db)

analyzeServicesSticky(services) ==
    analyzeLoopSticky(ObjectEntries(services), EmptyAnalysis, FALSE)

analyzeServices(services) == analyzeLoop(ObjectEntries(services), EmptyAnalysis)

SeqToSet(s) == {s[i] : i \in 1..Len(s)}

\* the class analyzeServices gave a name: the lists that hold it
ClassesOf(an, name) ==
    (IF name \in SeqToSet(an.databases) THEN {"Database"} ELSE {})
    \cup (IF name \in SeqToSet(an.apps) THEN {"Application"} ELSE {})
    \cup (IF name \in SeqToSet(an.otherServices) THEN {"Other"} ELSE {})

(***************************************************************************)
(* Value normalizers: parseEnvironment, parseVolume, parsePort             *)
(***************************************************************************)
\* position of the first occurrence of the character c in s, 0 if none
IndexOfChar(s, c) ==
    IF CharIn(c, s)
    THEN CHOOSE i \in 1..Len(s) : Char(s, i) = c /\ \A j \in 1..(i - 1) : Char(s, j) # c
    ELSE 0

RECURSIVE split(_, _)
\* String.prototype.split on a one-character separator
split(s, sep) ==
    LET i == IndexOfChar(s, sep)
    IN  IF i = 0 THEN <<s>>
        ELSE <<SubSeq(s, 1, i - 1)>> \o split(SubSeq(s, i + 1, Len(s)), sep)

RECURSIVE join(_, _)
\* Array.prototype.join
join(parts, sep) ==
    IF Len(parts) = 0 THEN ""
    ELSE IF Len(parts) = 1 THEN parts[1]
    ELSE parts[1] \o sep \o join(Tail(parts), sep)

RECURSIVE parseEnvLoop(_, _)
\* const [key, ...valueParts] = item.split('='); result[key] = valueParts.join('=') || ''
parseEnvLoop(items, result) ==
    IF Len(items) = 0 THEN result
    ELSE LET parts == split(Head(items), "=")
         IN  parseEnvLoop(Tail(items), ObjSet(result, parts[1], join(Tail(parts), "=")))

\* item.split is no function when the item is no string: a TypeError
parseEnvironmentThrows(env) ==
    env.form = "list" /\ \E i \in 1..Len(env.items) : ~IsString(env.items[i])

parseEnvironment(env) ==
    IF env.form = "list" THEN parseEnvLoop(env.items, <<>>)
    ELSE IF env.form = "map" THEN env.entries
    ELSE <<>>

parseVolume(volume) ==
    LET parts == split(volume, ":")
    IN  IF Len(parts) >= 2
        THEN IF startsWith(parts[1], "/") \/ startsWith(parts[1], "./")
             THEN [type |-> "bind", name |-> parts[1], containerPath |-> parts[2]]
             ELSE [type |-> "volume", name |-> parts[1], containerPath |-> parts[2]]
        ELSE [type |-> "volume", name |-> "unknown", containerPath |-> volume]

RECURSIVE DigitPrefix(_)
DigitPrefix(s) ==
    IF Len(s) > 0 /\ CharIn(Char(s, 1), DigitChars)
    THEN Char(s, 1) \o DigitPrefix(SubSeq(s, 2, Len(s)))
    ELSE ""

RECURSIVE NatToStr(_)
NatToStr(n) ==
    IF n < 10 THEN Char(DigitChars, n + 1)
    ELSE NatToStr(n \div 10) \o Char(DigitChars, (n % 10) + 1)

\* parseInt(s, 10) as the text a template literal prints for it; the tokens of
\* the model carry no sign and no leading blank
parseInt(s) ==
    IF DigitPrefix(s) = "" THEN "NaN" ELSE NatToStr(StrToNat(DigitPrefix(s)))

\* <<>> is null
parsePort(port) ==
    LET parts == split(port, ":")
    IN  IF Len(parts) = 2
        THEN <<[hostPort |-> parseInt(parts[1]), containerPort |-> parseInt(parts[2])]>>
        ELSE IF Len(parts) = 1
        THEN <<[hostPort |-> parseInt(parts[1]), containerPort |-> parseInt(parts[1])]>>
        ELSE <<>>

detectDatabaseType(image) ==
    LET lower == toLowerCase(image)
    IN  IF includes(lower, "postgres") THEN <<"postgres">>
        ELSE IF includes(lower, "mysql") THEN <<"mysql">>
        ELSE IF includes(lower, "mariadb") THEN <<"mariadb">>
        ELSE IF includes(lower, "mongo") THEN <<"mongo">>
        ELSE IF includes(lower, "redis") THEN <<"redis">>
        ELSE <<>>

(***************************************************************************)
(* generateMetaYaml: the schema                                            *)
(***************************************************************************)
allServicesOf(an) == an.databases \o an.apps \o an.otherServices

InitialSchema ==
    [required |-> <<"projectName">>,
     properties |-> << <<"projectName", [type |-> "string", title |-> "Project Name"]>> >>]

Property(title, default) == [type |-> "string", title |-> title, default |-> default]

RECURSIVE addEnvFieldsRequired(_, _, _)
\* the environment fields pushed to required as the name and image fields are
addEnvFieldsRequired(sch, serviceName, entries) ==
    IF Len(entries) = 0 THEN sch
    ELSE LET key == Head(entries)[1]
             value == Head(entries)[2]
         IN  addEnvFieldsRequired(
                 [sch EXCEPT !.properties =
                     ObjSet(@, serviceName \o "_" \o key,
                            Property(serviceName \o ": " \o key, String(value))),
                             !.required = Append(@, serviceName \o "_" \o key)],
                 serviceName, Tail(entries))

RECURSIVE addEnvFields(_, _, _)
\* for (const [key, value] of Object.entries(envVars)) schema.properties[...] = {...}
addEnvFields(sch, serviceName, entries) ==
    IF Len(entries) = 0 THEN sch
    ELSE LET key == Head(entries)[1]
             value == Head(entries)[2]
         IN  addEnvFields(
                 [sch EXCEPT !.properties =
                     ObjSet(@, serviceName \o "_" \o key,
                            Property(serviceName \o ": " \o key, String(value)))],
                 serviceName, Tail(entries))

\* the body of the loop over allServices
addServiceFields(sch, serviceName, service) ==
    LET s1 == [sch EXCEPT
                 !.properties = ObjSet(@, serviceName \o "ServiceName",
                                       Property(serviceName \o " Service Name", serviceName)),
                 !.required = Append(@, serviceName \o "ServiceName")]
        s2 == IF HasImage(service)
              THEN [s1 EXCEPT
                      !.properties = ObjSet(@, serviceName \o "ServiceImage",
                                            Property(serviceName \o " Docker Image",
                                                     service.image[1])),
                      !.required = Append(@, serviceName \o "ServiceImage")]
              ELSE s1
    IN  IF service.environment.form # "absent"
        THEN addEnvFields(s2, serviceName, ObjectEntries(parseEnvironment(service.environment)))
        ELSE s2

RECURSIVE schemaLoop(_, _, _)
schemaLoop(names, services, sch) ==
    IF Len(names) = 0 THEN sch
    ELSE schemaLoop(Tail(names), services,
                    addServiceFields(sch, Head(names), ObjGet(services, Head(names))))

\* the schema object generateMetaYaml hands to yaml.stringify
generateSchema(cmp, an) == schemaLoop(allServicesOf(an), cmp.services, InitialSchema)

\* generateMetaYaml throws where parseEnvironment does
generateMetaYamlThrows(cmp, an) ==
    \E i \in 1..Len(cmp.services) : parseEnvironmentThrows(cmp.services[i][2].environment)

(***************************************************************************)
(* interpolateEnvValue                                                     *)
(***************************************************************************)
\* name.replace(/-/g, '_')
RECURSIVE sanitizeVarName(_)
sanitizeVarName(name) ==
    IF Len(name) = 0 THEN ""
    ELSE (IF Char(name, 1) = "-" THEN "_" ELSE Char(name, 1))
            \o sanitizeVarName(SubSeq(name, 2, Len(name)))

\* Whether new RegExp(pattern) matches s at position i.  Of the characters the
\* names of the model are made of only "." is a regular-expression operator:
\* it matches any character but a line break.
RegExpMatchAt(s, i, pattern) ==
    /\ i + Len(pattern) - 1 <= Len(s)
    /\ \A k \in 1..Len(pattern) :
          \/ Char(pattern, k) = Char(s, i + k - 1)
          \/ Char(pattern, k) = "." /\ Char(s, i + k - 1) # "\n"

RECURSIVE replaceFrom(_, _, _, _)
replaceFrom(s, i, pattern, replacement) ==
    IF i > Len(s) THEN ""
    ELSE IF RegExpMatchAt(s, i, pattern)
    THEN replacement \o replaceFrom(s, i + Len(pattern), pattern, replacement)
    ELSE Char(s, i) \o replaceFrom(s, i + 1, pattern, replacement)

\* s.replace(new RegExp(pattern, 'g'), replacement), pattern not empty
replaceAll(s, pattern, replacement) == replaceFrom(s, 1, pattern, replacement)

\* `$(PROJECT_NAME)_\${input.${dbName}ServiceName}`
serviceRef(dbName) == "$(PROJECT_NAME)_${input." \o dbName \o "ServiceName}"

RECURSIVE replaceDbNames(_, _)
\* for (const [dbName, passwordVar] of Object.entries(dbPasswords)) strValue = ...
replaceDbNames(strValue, entries) ==
    IF Len(entries) = 0 THEN strValue
    ELSE replaceDbNames(replaceAll(strValue, Head(entries)[1], serviceRef(Head(entries)[1])),
                        Tail(entries))

RECURSIVE escapeChar(_, _)
\* s.replace(/c/g, '\\c') for a single character c
escapeChar(s, c) ==
    IF Len(s) = 0 THEN ""
    ELSE (IF Char(s, 1) = c THEN "\\" \o c ELSE Char(s, 1))
            \o escapeChar(SubSeq(s, 2, Len(s)), c)

\* the second replace alone
escapeDollarOnly(strValue) == escapeChar(strValue, "$")

\* strValue.replace(/`/g, '\\`').replace(/\$/g, '\\$')
escapeTemplate(strValue) == escapeChar(escapeChar(strValue, Backtick), "$")

interpolateEnvValue(value, dbPasswords) ==
    escapeTemplate(replaceDbNames(String(value), ObjectEntries(dbPasswords)))

(***************************************************************************)
(* generateAppServiceCode                                                  *)
(***************************************************************************)
RECURSIVE envLines(_, _)
envLines(entries, dbPasswords) ==
    IF Len(entries) = 0 THEN ""
    ELSE "        " \o Backtick \o Head(entries)[1] \o "="
            \o interpolateEnvValue(Head(entries)[2], dbPasswords) \o Backtick \o ",\n"
            \o envLines(Tail(entries), dbPasswords)

envCode(service, dbPasswords) ==
    LET envVars == parseEnvironment(service.environment)
    IN  IF Len(envVars) > 0
        THEN "      env: [\n" \o envLines(ObjectEntries(envVars), dbPasswords)
                \o "      ].join(\"\\n\"),\n"
        ELSE ""

sourceCode(serviceName, service) ==
    IF HasImage(service)
    THEN "      source: {\n" \o "        type: \"image\",\n"
            \o "        image: input." \o serviceName \o "ServiceImage,\n" \o "      },\n"
    ELSE IF service.build
    THEN "      // TODO: Configure build source\n" \o "      source: {\n"
            \o "        type: \"image\",\n" \o "        image: \"REPLACE_WITH_IMAGE\",\n"
            \o "      },\n"
    ELSE ""

mountCode(volume) ==
    LET parsed == parseVolume(volume)
    IN  IF parsed.type = "volume"
        THEN "        {\n" \o "          type: \"volume\",\n"
                \o "          name: \"" \o parsed.name \o "\",\n"
                \o "          mountPath: \"" \o parsed.containerPath \o "\",\n"
                \o "        },\n"
        ELSE "        // TODO: Handle bind mount: " \o volume \o "\n"

RECURSIVE mountLines(_)
mountLines(volumes) ==
    IF Len(volumes) = 0 THEN "" ELSE mountCode(Head(volumes)) \o mountLines(Tail(volumes))

mountsCode(service) ==
    IF Len(service.volumes) > 0
    THEN "      mounts: [\n" \o mountLines(service.volumes) \o "      ],\n"
    ELSE ""

domainsCode(service) ==
    IF Len(service.ports) > 0 /\ parsePort(service.ports[1]) # <<>>
    THEN "      domains: [\n" \o "        {\n"
            \o "          host: \"$(EASYPANEL_DOMAIN)\",\n"
            \o "          port: " \o parsePort(service.ports[1])[1].containerPort \o ",\n"
            \o "        },\n" \o "      ],\n"
    ELSE ""

\* service.command is <<>> or <<string>>; an array is the string of its items
\* joined by blanks
deployCode(service) ==
    IF service.command # <<>> /\ service.command[1] # ""
    THEN "      deploy: {\n"
            \o "        command: \"" \o escapeChar(service.command[1], "\"") \o "\",\n"
            \o "      },\n"
    ELSE ""

\* volume.split and port.split are no functions when the token is no string
generateAppServiceCodeThrows(service) ==
    \/ parseEnvironmentThrows(service.environment)
    \/ \E i \in 1..Len(service.volumes) : ~IsString(service.volumes[i])
    \/ Len(service.ports) > 0 /\ ~IsString(service.ports[1])

generateAppServiceCode(serviceName, service, dbPasswords) ==
    "  // " \o serviceName \o " Service\n"
        \o "  services.push({\n"
        \o "    type: \"app\",\n"
        \o "    data: {\n"
        \o "      serviceName: input." \o serviceName \o "ServiceName,\n"
        \o envCode(service, dbPasswords)
        \o sourceCode(serviceName, service)
        \o mountsCode(service)
        \o domainsCode(service)
        \o deployCode(service)
        \o "    },\n"
        \o "  });\n\n"

(***************************************************************************)
(* generateIndexTs                                                         *)
(***************************************************************************)
RECURSIVE passwordBindings(_, _)
\* dbPasswords[dbName] = varName, for each name of analysis.databases
passwordBindings(dbNames, dbPasswords) ==
    IF Len(dbNames) = 0 THEN dbPasswords
    ELSE passwordBindings(Tail(dbNames),
            ObjSet(dbPasswords, Head(dbNames), sanitizeVarName(Head(dbNames)) \o "Password"))

RECURSIVE passwordLines(_)
passwordLines(dbNames) ==
    IF Len(dbNames) = 0 THEN ""
    ELSE "  const " \o sanitizeVarName(Head(dbNames)) \o "Password = randomPassword();\n"
            \o passwordLines(Tail(dbNames))

SupportedTypes == {"postgres", "mysql", "mariadb", "mongo", "redis"}

databaseServiceCode(dbName, service, dbPasswords) ==
    LET dbType == detectDatabaseType(IF service.image = <<>> THEN "" ELSE service.image[1])
    IN  "  // " \o dbName \o " Service ("
            \o (IF dbType # <<>> THEN dbType[1] ELSE "database") \o ")\n"
            \o (IF dbType # <<>> /\ dbType[1] \in SupportedTypes
                THEN "  services.push({\n"
                        \o "    type: \"" \o dbType[1] \o "\",\n"
                        \o "    data: {\n"
                        \o "      serviceName: input." \o dbName \o "ServiceName,\n"
                        \o "      password: " \o ObjGet(dbPasswords, dbName) \o ",\n"
                        \o "    },\n"
                        \o "  });\n\n"
                ELSE generateAppServiceCode(dbName, service, dbPasswords))

\* a database of a supported type is emitted without a call of the parsers
databaseServiceCodeThrows(service) ==
    LET dbType == detectDatabaseType(IF service.image = <<>> THEN "" ELSE service.image[1])
    IN  dbType = <<>> /\ generateAppServiceCodeThrows(service)

RECURSIVE databaseServicesCode(_, _, _)
databaseServicesCode(dbNames, services, dbPasswords) ==
    IF Len(dbNames) = 0 THEN ""
    ELSE databaseServiceCode(Head(dbNames), ObjGet(services, Head(dbNames)), dbPasswords)
            \o databaseServicesCode(Tail(dbNames), services, dbPasswords)

RECURSIVE appServicesCode(_, _, _)
appServicesCode(names, services, dbPasswords) ==
    IF Len(names) = 0 THEN ""
    ELSE generateAppServiceCode(Head(names), ObjGet(services, Head(names)), dbPasswords)
            \o appServicesCode(Tail(names), services, dbPasswords)

generateIndexTsThrows(cmp, an) ==
    \/ \E i \in 1..Len(an.databases) :
          databaseServiceCodeThrows(ObjGet(cmp.services, an.databases[i]))
    \/ \E i \in 1..Len(an.apps) :
          generateAppServiceCodeThrows(ObjGet(cmp.services, an.apps[i]))
    \/ \E i \in 1..Len(an.otherServices) :
          generateAppServiceCodeThrows(ObjGet(cmp.services, an.otherServices[i]))

generateIndexTs(cmp, an) ==
    LET dbPasswords == passwordBindings(an.databases, <<>>)
    IN  "import { Output, randomPassword, Services } from \"~templates-utils\";\n"
            \o "import { Input } from \"./meta\";\n\n"
            \o "export function generate(input: Input): Output {\n"
            \o "  const services: Services = [];\n\n"
            \o passwordLines(an.databases)
            \o (IF Len(an.databases) > 0 THEN "\n" ELSE "")
            \o databaseServicesCode(an.databases, cmp.services, dbPasswords)
            \o appServicesCode(an.apps, cmp.services, dbPasswords)
            \o appServicesCode(an.otherServices, cmp.services, dbPasswords)
            \o "  return { services };\n"
            \o "}\n"

(***************************************************************************)
(* The compose documents of the model                                      *)
(***************************************************************************)
\* Names and sources for classification: keywords in the name only, in the
\* image only, in upper case, split across image and name ("my" + "sql"),
\* an empty image, a build without image, neither, and an array-index name.
ClassNames == {"web", "sql", "Redis-cache", "7"}

ClassSources ==
    {Plain(<<>>, FALSE), Plain(<<>>, TRUE), Plain(<<"">>, FALSE),
     Plain(<<"nginx:alpine">>, FALSE), Plain(<<"postgres:15">>, FALSE),
     Plain(<<"my">>, FALSE), Plain(<<"MySQL:8">>, TRUE)}

ClassEntries == {<<n, s>> : n \in ClassNames, s \in ClassSources}

\* Services whose schema fields meet: the name field of a_b and the env field
\* bServiceName of a; the env fields b_C of a and C of a_b.
FieldEntries ==
    {<<n, Service(<<i>>, FALSE, e, <<>>, <<>>, <<>>)>> :
        n \in {"a", "a_b"}, i \in {"img:1", "img:2"},
        e \in {NoEnv,
               EnvMap(<< <<"PORT", NotAString("3000")>>, <<"NAME", "a=b">> >>),
               EnvMap(<< <<"bServiceName", "x">> >>),
               EnvMap(<< <<"b_C", "1">>, <<"D", "d">> >>),
               EnvList(<<"C=2", "D=p=q", "E">>)}}

\* The services of the guide's example and neighbours of it: values that name
\* other services, names that contain one another.
RefEntries ==
    {<<"db", Service(<<"postgres:15">>, FALSE,
                     EnvMap(<< <<"POSTGRES_PASSWORD", "example">> >>),
                     <<>>, <<"db-data:/var/lib/postgresql/data">>, <<>>)>>,
     <<"redis", Plain(<<"redis:alpine">>, FALSE)>>,
     <<"redis-db", Plain(<<"redis:7">>, FALSE)>>,
     <<"api", Service(<<"node:18">>, FALSE,
                      EnvMap(<< <<"DATABASE_URL", "postgres://user:pass@db:5432/mydb">>,
                                <<"REDIS_URL", "redis://redis-db:6379">> >>),
                      <<"3000:3000">>, <<>>, <<"npm start">>)>>,
     <<"worker", Service(<<>>, TRUE, EnvList(<<"DB_HOST=db", "PRICE=$5", "MODE=fast">>),
                         <<>>, <<>>, <<>>)>>,
     <<"search", Service(<<"elasticsearch:8">>, FALSE,
                         EnvList(<<"PEER=db">>), <<"9200">>, <<>>, <<>>)>>,
     <<"pg.1", Plain(<<"postgres:15">>, FALSE)>>,
     <<"proxy", Service(<<"nginx:alpine">>, FALSE,
                        EnvList(<<"UPSTREAM=http://api:3000", "PG_HOST=pg-1", "TZ=UTC">>),
                        <<"80:80">>, <<>>, <<>>)>>}

\* One service with an image, one port token and one volume token.
SingleEntries ==
    {<<n, Service(<<i>>, FALSE, NoEnv, <<p>>, <<v>>, <<>>)>> :
        n \in {"web", "db"}, i \in {"nginx:alpine", "postgres:15", "Redis"},
        p \in {"80:80", "8080:80", "3000", "http", "", "1:2:3", "80:http",
               NotAString("3000")},
        v \in {"./nginx.conf:/etc/nginx/nginx.conf", "/srv/data:/data",
               "../conf:/etc/conf", "web-data:/data", "/data",
               NotAString("[object Object]")}}

\* One service with several port tokens: the first gives no binding, a later
\* one does; two that give bindings; none that does.
PortEntries ==
    {<<"web", Service(<<"nginx:alpine">>, FALSE, NoEnv, ps, <<>>, <<>>)>> :
        ps \in {<<"127.0.0.1:8080:80", "3000:3000">>, <<"8080:80", "3000">>,
                <<"1:2:3", "4:5:6">>, <<"9000", "1:2:3">>}}

\* One service with an environment in sequence form: tokens with several "=",
\* with none, with nothing before or after it, a key given twice, and an item
\* yaml.parse gives as a number; values with backticks, "$" and backslashes.
EnvEntries ==
    {<<"job", Service(<<"busybox">>, FALSE, EnvList(items), <<>>, <<>>, <<>>)>> :
        items \in {<<"URL=a=b=c", "DEBUG">>, <<"A=", "=x", "A=1">>,
                   <<"K=v", NotAString("5")>>,
                   <<"CMD=^id^ $HOME", "WIN=c:\\tmp\\$x$$">>}}

\* Database services whose names meet: my-db and my_db differ in "-" and "_"
\* only, db is part of db2.  The image of db2 makes it a database of no
\* supported type, declared as an app with its environment, which names both.
NameEntries ==
    {<<"my-db", Plain(<<"postgres:15">>, FALSE)>>,
     <<"my_db", Plain(<<"redis:7">>, FALSE)>>,
     <<"db2", Service(<<"elasticsearch:8">>, FALSE, EnvMap(<< <<"HOSTS", "db2,db">> >>),
                      <<>>, <<>>, <<>>)>>,
     <<"db", Plain(<<"postgres:15">>, FALSE)>>}

\* the objects of at most n entries drawn from pool, with pairwise different keys
RECURSIVE ObjectsOver(_, _)
ObjectsOver(pool, n) ==
    IF n = 0 THEN {<<>>}
    ELSE LET shorter == ObjectsOver(pool, n - 1)
         IN  shorter \cup
             {Append(o, e) : <<o, e>> \in
                 {<<o, e>> \in shorter \X pool : Len(o) = n - 1 /\ ~ObjHas(o, e[1])}}

Documents ==
    {[services |-> o] :
        o \in ((ObjectsOver(ClassEntries, MaxServices)
                  \cup ObjectsOver(FieldEntries, MaxServices)
                  \cup ObjectsOver(RefEntries, MaxServices)
                  \cup ObjectsOver(SingleEntries, 1)
                  \cup ObjectsOver(PortEntries, 1)
                  \cup ObjectsOver(EnvEntries, 1)
                  \cup ObjectsOver(NameEntries, MaxServices)) \ {<<>>})}

(***************************************************************************)
(* SpecGen: the generation functions applied to every document             *)
(***************************************************************************)
NoAnalysis == EmptyAnalysis
NoSchema == InitialSchema

InitGen ==
    /\ compose \in Documents
    /\ analysis = NoAnalysis
    /\ schema = NoSchema
    /\ indexTs = ""
    /\ stage = "parsed"
    /\ run = <<>>
    /\ dirs = {}
    /\ files = <<>>

\* const analysis = this.analyzeServices(compose.services)
Analyze ==
    /\ stage = "parsed"
    /\ analysis' = analyzeServices(compose.services)
    /\ stage' = "analyzed"
    /\ UNCHANGED <<compose, schema, indexTs, runVars>>

\* const metaYaml = this.generateMetaYaml(slug, compose, analysis)
GenerateMetaYaml ==
    /\ stage = "analyzed"
    /\ IF generateMetaYamlThrows(compose, analysis)
       THEN stage' = "failed" /\ UNCHANGED schema
       ELSE stage' = "meta" /\ schema' = generateSchema(compose, analysis)
    /\ UNCHANGED <<compose, analysis, indexTs, runVars>>

\* const indexTs = this.generateIndexTs(slug, compose, analysis)
GenerateIndexTs ==
    /\ stage = "meta"
    /\ IF generateIndexTsThrows(compose, analysis)
       THEN stage' = "failed" /\ UNCHANGED indexTs
       ELSE stage' = "index" /\ indexTs' = generateIndexTs(compose, analysis)
    /\ UNCHANGED <<compose, analysis, schema, runVars>>

NextGen == Analyze \/ GenerateMetaYaml \/ GenerateIndexTs

SpecGen == InitGen /\ [][NextGen]_vars

(***************************************************************************)
(* generateMetaYaml and generateReadme: the texts written beside index.ts  *)
(***************************************************************************)
UpperChar(c) == IF CharIn(c, LowerCase) THEN Char(UpperCase, IndexIn(c, LowerCase)) ELSE c

\* The object handed to yaml.stringify, without the changeLog date, links and
\* contributors; yaml.stringify itself is not modelled.
generateMetaYaml(slug, cmp, an) ==
    [name |-> UpperChar(Char(slug, 1)) \o SubSeq(slug, 2, Len(slug)),
     description |-> "Converted from docker-compose.yml with "
                        \o NatToStr(Len(allServicesOf(an))) \o " service(s)",
     schema |-> generateSchema(cmp, an)]

RECURSIVE bulletLines(_)
bulletLines(names) ==
    IF Len(names) = 0 THEN "" ELSE "- " \o Head(names) \o "\n" \o bulletLines(Tail(names))

\* The notes up to the excerpt of the original document, which is left out.
generateReadme(slug, cmp, an) ==
    "# " \o slug \o " - Conversion Notes\n\n"
        \o "## Services Detected\n\n"
        \o "### Databases (" \o NatToStr(Len(an.databases)) \o ")\n"
        \o bulletLines(an.databases)
        \o "\n### Applications (" \o NatToStr(Len(an.apps)) \o ")\n"
        \o bulletLines(an.apps)
        \o "\n### Other Services (" \o NatToStr(Len(an.otherServices)) \o ")\n"
        \o bulletLines(an.otherServices)
        \o "\n## Manual Review Required\n\n"

(***************************************************************************)
(* convert and generateTemplate: the invocations and the disk              *)
(***************************************************************************)
\* Two invocations of the command line tool, each its own process.
Procs == {"r1", "r2"}

Slugs == {"my-app2", "blog", "My_App", "app!", ""}

ComposePaths == {"./docker-compose.yml", "https://example.com/docker-compose.yml"}

isUrl(path) == startsWith(path, "http://") \/ startsWith(path, "https://")

SlugChars == LowerCase \o DigitChars \o "-"

\* /[a-z0-9-]+/ without the anchors: some character of the class anywhere
slugMatchesUnanchored(slug) == \E i \in 1..Len(slug) : CharIn(Char(slug, i), SlugChars)

RECURSIVE classRun(_, _)
\* where a longest run of [a-z0-9-] that starts at position i ends
classRun(slug, i) ==
    IF i <= Len(slug) /\ CharIn(Char(slug, i), SlugChars) THEN classRun(slug, i + 1) ELSE i

\* templateSlug.match(/^[a-z0-9-]+$/): from the start, one or more characters
\* of the class, then the end of the text
slugMatches(slug) == classRun(slug, 1) > 1 /\ classRun(slug, 1) = Len(slug) + 1

\* the artifacts without the conversion notes
ArtifactsNoNotes ==
    <<"meta.yaml", "index.ts", "assets/logo.png.placeholder",
      "assets/screenshot.png.placeholder">>

\* the five artifacts in the order generateTemplate writes them
Artifacts ==
    <<"meta.yaml", "index.ts", "assets/logo.png.placeholder",
      "assets/screenshot.png.placeholder", "CONVERSION_NOTES.md">>

\* index.ts made from the slug as well: a text that differs from run to run
ArtifactTextStamped(r, artifact) ==
    CASE artifact = "meta.yaml" -> generateMetaYaml(r.slug, r.compose, r.analysis)
      [] artifact = "index.ts" ->
            "// " \o r.slug \o "\n" \o generateIndexTs(r.compose, r.analysis)
      [] OTHER -> artifact

\* what each artifact is written with
ArtifactText(r, artifact) ==
    CASE artifact = "meta.yaml" -> generateMetaYaml(r.slug, r.compose, r.analysis)
      [] artifact = "index.ts" -> generateIndexTs(r.compose, r.analysis)
      [] artifact = "assets/logo.png.placeholder" ->
            "Add logo.png or logo.svg here (512x512px recommended)"
      [] artifact = "assets/screenshot.png.placeholder" ->
            "Add screenshot.png here (1200x630px recommended)"
      [] artifact = "CONVERSION_NOTES.md" -> generateReadme(r.slug, r.compose, r.analysis)

\* What the source holds once read: text that is no YAML, an empty text
\* (yaml.parse gives null), a mapping without services, a mapping with an
\* empty services mapping, or a document.
WebDocument ==
    [services |-> << <<"web", Service(<<"nginx:alpine">>, FALSE, NoEnv, <<"80:80">>,
                                      <<"./nginx.conf:/etc/nginx/nginx.conf">>, <<>>)>> >>]

ApiDocument ==
    [services |-> << <<"db", Plain(<<"postgres:15">>, FALSE)>>,
                     <<"api", Service(<<"node:18">>, FALSE,
                                      EnvMap(<< <<"DATABASE_URL", "postgres://db:5432">> >>),
                                      <<"3000:3000">>, <<>>, <<>>)>> >>]

\* tokens the normalizers do not recognise: an environment token without "=",
\* a volume token of one part, a port token that is no number
TolerantDocument ==
    [services |-> << <<"job", Service(<<"busybox">>, FALSE, EnvList(<<"DEBUG">>),
                                      <<"http">>, <<"/data">>, <<>>)>> >>]

\* ports: [3000] and a long-form volume: values that are no strings
NumberPortDocument ==
    [services |-> << <<"web", Service(<<"nginx:alpine">>, FALSE, NoEnv,
                                      <<NotAString("3000")>>, <<>>, <<>>)>> >>]

LongVolumeDocument ==
    [services |-> << <<"web", Service(<<"nginx:alpine">>, FALSE, EnvList(<<NotAString("5")>>),
                                      <<"80:80">>, <<NotAString("[object Object]")>>,
                                      <<>>)>> >>]

SourceContents ==
    {[kind |-> "malformed"], [kind |-> "null"], [kind |-> "noServices"],
     [kind |-> "document", compose |-> [services |-> <<>>]],
     [kind |-> "document", compose |-> WebDocument],
     [kind |-> "document", compose |-> ApiDocument],
     [kind |-> "document", compose |-> TolerantDocument],
     [kind |-> "document", compose |-> NumberPortDocument],
     [kind |-> "document", compose |-> LongVolumeDocument]}

NoCompose == [services |-> <<>>]

\* parse is what yaml.parse made of the text (the local compose of convert):
\* "none" before the call, then the kind of the content.
\* io lists the file and network calls of the invocation that have completed.
\* after is history, no state of the program: the invocations that had already
\* succeeded at the same slug when this one made its pre-check.
IdleRun ==
    [pc |-> "idle", slug |-> "", composePath |-> "", compose |-> NoCompose,
     analysis |-> EmptyAnalysis, parse |-> "none", io |-> <<>>, error |-> "",
     after |-> {}]

NoFiles == [a \in SeqToSet(Artifacts) |-> <<>>]

Init ==
    /\ run = [p \in Procs |-> IdleRun]
    /\ dirs = {}
    /\ files = [s \in Slugs |-> NoFiles]
    /\ compose = NoCompose
    /\ analysis = NoAnalysis
    /\ schema = NoSchema
    /\ indexTs = ""
    /\ stage = "off"

Fail(r, kind) == [r EXCEPT !.pc = "failed", !.error = kind]

\* convert is called: the slug is validated before the first await
Start(p) ==
    /\ run[p].pc = "idle"
    /\ \E slug \in Slugs, path \in ComposePaths :
          LET r == [run[p] EXCEPT !.slug = slug, !.composePath = path]
          IN  run' = [run EXCEPT ![p] =
                        IF ~slugMatches(slug) THEN Fail(r, "InvalidSlug")
                        ELSE [r EXCEPT !.pc = "pathExists"]]
    /\ UNCHANGED <<dirs, files, genVars>>

pathExistsNever(ds, slug) == FALSE

\* fs.pathExists(templatePath)
pathExists(ds, slug) == slug \in ds

\* await fs.pathExists(templatePath), then the throw or the next await
CheckExists(p) ==
    /\ run[p].pc = "pathExists"
    /\ LET r == [run[p] EXCEPT
                    !.io = Append(@, "pathExists"),
                    !.after = {q \in Procs \ {p} :
                                  run[q].pc = "done" /\ run[q].slug = run[p].slug}]
       IN  run' = [run EXCEPT ![p] =
                     IF pathExists(dirs, r.slug) THEN Fail(r, "AlreadyExists")
                     ELSE [r EXCEPT !.pc = "read"]]
    /\ UNCHANGED <<dirs, files, genVars>>

\* axios.get or fs.readFile rejects
ReadFails(p) ==
    /\ run[p].pc = "read"
    /\ run' = [run EXCEPT ![p] =
                  Fail(@, IF isUrl(@.composePath) THEN "FetchError" ELSE "ReadError")]
    /\ UNCHANGED <<dirs, files, genVars>>

\* what convert does with the text, up to the call of generateTemplate
parsed(r, content) ==
    LET c == [r EXCEPT !.parse = content.kind]
    IN  IF content.kind = "malformed" THEN Fail(c, "ParseError")
        ELSE IF content.kind = "null" THEN Fail(c, "TypeError")
        ELSE IF content.kind = "noServices" \/ Len(content.compose.services) = 0
        THEN Fail(c, "EmptyDocument")
        ELSE [c EXCEPT !.pc = "ensureDir",
                       !.compose = content.compose,
                       !.analysis = analyzeServices(content.compose.services)]

\* the source is read; yaml.parse, the services check and analyzeServices
\* follow without an await
ReadSource(p) ==
    /\ run[p].pc = "read"
    /\ \E content \in SourceContents :
          LET call == IF isUrl(run[p].composePath) THEN "axios.get" ELSE "readFile"
          IN  run' = [run EXCEPT ![p] = parsed([@ EXCEPT !.io = Append(@, call)], content)]
    /\ UNCHANGED <<dirs, files, genVars>>

\* await fs.ensureDir(path.join(templatePath, 'assets')): no error when the
\* directory is there already
EnsureDir(p) ==
    /\ run[p].pc = "ensureDir"
    /\ dirs' = dirs \cup {run[p].slug}
    /\ run' = [run EXCEPT ![p] = [@ EXCEPT !.pc = "write", !.io = Append(@, "ensureDir")]]
    /\ UNCHANGED <<files, genVars>>

\* the writes a run has completed
Written(r) == SelectSeq(r.io, LAMBDA op : op \in SeqToSet(Artifacts))

writeFileKeep(fls, slug, artifact, text) ==
    IF fls[slug][artifact] = <<>> THEN [fls EXCEPT ![slug][artifact] = <<text>>] ELSE fls

\* fs.writeFile: creates the file or replaces what it holds
writeFile(fls, slug, artifact, text) == [fls EXCEPT ![slug][artifact] = <<text>>]

\* whether the call that makes the text of the artifact throws
ArtifactThrows(r, artifact) ==
    \/ artifact = "meta.yaml" /\ generateMetaYamlThrows(r.compose, r.analysis)
    \/ artifact = "index.ts" /\ generateIndexTsThrows(r.compose, r.analysis)

\* the text of the next artifact is made and await fs.writeFile writes it; a
\* TypeError thrown while the text is made leaves convert before the write
WriteArtifact(p) ==
    /\ run[p].pc = "write"
    /\ LET r == run[p]
           artifact == Artifacts[Len(Written(r)) + 1]
       IN  IF ArtifactThrows(r, artifact)
           THEN /\ run' = [run EXCEPT ![p] = Fail(r, "SplitTypeError")]
                /\ UNCHANGED files
           ELSE /\ files' = writeFile(files, r.slug, artifact, ArtifactText(r, artifact))
                /\ run' = [run EXCEPT ![p] =
                              [@ EXCEPT !.io = Append(@, artifact),
                                        !.pc = IF Len(Written(r)) + 1 = Len(Artifacts)
                                               THEN "done" ELSE "write"]]
    /\ UNCHANGED <<dirs, genVars>>

\* fs.ensureDir or fs.writeFile rejects (no space, no permission): the error
\* leaves convert, nothing is undone
DiskFails(p) ==
    /\ run[p].pc \in {"ensureDir", "write"}
    /\ run' = [run EXCEPT ![p] = Fail(@, "WriteError")]
    /\ UNCHANGED <<dirs, files, genVars>>

Next ==
    \E p \in Procs :
        \/ Start(p)
        \/ CheckExists(p)
        \/ ReadFails(p)
        \/ ReadSource(p)
        \/ EnsureDir(p)
        \/ WriteArtifact(p)
        \/ DiskFails(p)

Spec == Init /\ [][Next]_vars

(***************************************************************************)
(* Claims about analyzeServices (SpecGen)                                  *)
(***************************************************************************)
Analyzed == stage # "parsed"

ServiceNames(cmp) == {cmp.services[i][1] : i \in 1..Len(cmp.services)}

NoDuplicates(seq) == \A i, j \in 1..Len(seq) : seq[i] = seq[j] => i = j

\* C1: analyzeServices puts every declared service name in exactly one of
\* databases, apps, otherServices: the lists are pairwise disjoint, none holds
\* a name twice, and together they hold exactly the declared names.
C1_Partition ==
    Analyzed =>
        /\ NoDuplicates(allServicesOf(analysis))
        /\ SeqToSet(allServicesOf(analysis)) = ServiceNames(compose)
        /\ Len(allServicesOf(analysis)) = Len(compose.services)
        /\ \A n \in ServiceNames(compose) : Cardinality(ClassesOf(analysis, n)) = 1

C1_Witness ==
    /\ Analyzed
    /\ Len(analysis.databases) = 1
    /\ Len(analysis.apps) = 1
    /\ HasImage(ObjGet(compose.services, analysis.databases[1]))

ContainsKeyword(text) == \E k \in 1..Len(dbImages) : includes(text, dbImages[k])

ImageText(service) == IF service.image = <<>> THEN "" ELSE service.image[1]

\* C2 as claimed: Database exactly when the lower-cased concatenation of image
\* and name contains a keyword; otherwise Application exactly when an image or
\* a build is present; otherwise Other.
C2_HaystackRule ==
    Analyzed =>
        \A i \in 1..Len(compose.services) :
            LET name == compose.services[i][1]
                service == compose.services[i][2]
            IN  ClassesOf(analysis, name) =
                    IF ContainsKeyword(toLowerCase(ImageText(service) \o name))
                    THEN {"Database"}
                    ELSE IF HasImage(service) \/ service.build THEN {"Application"}
                    ELSE {"Other"}

\* C2 (amended): Database exactly when the lower-cased image or the
\* lower-cased name contains a keyword; otherwise Application exactly when
\* the image is a non-empty string or a build is declared; otherwise Other.
C2_ClassRule ==
    Analyzed =>
        \A i \in 1..Len(compose.services) :
            LET name == compose.services[i][1]
                service == compose.services[i][2]
            IN  ClassesOf(analysis, name) =
                    IF \/ ContainsKeyword(toLowerCase(ImageText(service)))
                       \/ ContainsKeyword(toLowerCase(name))
                    THEN {"Database"}
                    ELSE IF HasImage(service) \/ service.build
                    THEN {"Application"}
                    ELSE {"Other"}

\* image "my" and name "sql": a keyword only across the two
C2_Witness ==
    /\ Analyzed
    /\ \E i \in 1..Len(compose.services) :
          /\ compose.services[i][1] = "sql"
          /\ compose.services[i][2].image = <<"my">>
          /\ ClassesOf(analysis, "sql") = {"Application"}
    /\ \E i \in 1..Len(compose.services) :
          /\ compose.services[i][1] = "Redis-cache"
          /\ compose.services[i][2].image = <<"">>
          /\ ClassesOf(analysis, "Redis-cache") = {"Database"}

Reverse(seq) == [i \in 1..Len(seq) |-> seq[Len(seq) + 1 - i]]

\* a database, an application and an other service to declare in front
ExtraEntries ==
    {<<"mongo-extra", Plain(<<>>, FALSE)>>, <<"extra", Plain(<<"nginx:alpine">>, FALSE)>>,
     <<"0", Plain(<<>>, FALSE)>>}

\* C3: the class of a service is the same whatever else the document holds:
\* alone, with the services in reverse order, and with one more service
\* declared in front of them.
C3_OrderIndependent ==
    stage = "analyzed" =>
        \A i \in 1..Len(compose.services) :
            LET entry == compose.services[i]
                class == ClassesOf(analysis, entry[1])
            IN  /\ ClassesOf(analyzeServices(<<entry>>), entry[1]) = class
                /\ ClassesOf(analyzeServices(Reverse(compose.services)), entry[1]) = class
                /\ \A extra \in ExtraEntries :
                      ClassesOf(analyzeServices(<<extra>> \o compose.services), entry[1])
                          = class

\* an application declared after a database
C3_Witness ==
    /\ stage = "analyzed"
    /\ Len(compose.services) = 2
    /\ ClassesOf(analysis, compose.services[1][1]) = {"Database"}
    /\ ClassesOf(analysis, compose.services[2][1]) = {"Application"}

(***************************************************************************)
(* Claims about the schema (SpecGen)                                       *)
(***************************************************************************)
SchemaBuilt == stage \in {"meta", "index"}

RECURSIVE EnvInsertions(_, _)
EnvInsertions(serviceName, entries) ==
    IF Len(entries) = 0 THEN <<>>
    ELSE << <<serviceName \o "_" \o Head(entries)[1],
              Property(serviceName \o ": " \o Head(entries)[1], Head(entries)[2])>> >>
            \o EnvInsertions(serviceName, Tail(entries))

RECURSIVE FieldInsertions(_, _)
\* the property insertions of the schema loop, in the order they are made
FieldInsertions(names, services) ==
    IF Len(names) = 0 THEN <<>>
    ELSE LET n == Head(names)
             service == ObjGet(services, n)
         IN  << <<n \o "ServiceName", Property(n \o " Service Name", n)>> >>
                \o (IF HasImage(service)
                    THEN << <<n \o "ServiceImage",
                              Property(n \o " Docker Image", service.image[1])>> >>
                    ELSE <<>>)
                \o EnvInsertions(n, ObjectEntries(parseEnvironment(service.environment)))
                \o FieldInsertions(Tail(names), services)

FirstInsertion(ins, key) ==
    ins[CHOOSE i \in 1..Len(ins) : ins[i][1] = key /\ \A j \in 1..(i - 1) : ins[j][1] # key][2]

\* C4 as claimed: no two properties share a key, and a key that is inserted
\* more than once keeps the type, title and default of its first insertion.
C4_FirstWriterWins ==
    SchemaBuilt =>
        LET ins == FieldInsertions(allServicesOf(analysis), compose.services)
        IN  /\ NoDuplicates(ObjKeys(schema.properties))
            /\ \A i \in 1..Len(ins) :
                  /\ ObjHas(schema.properties, ins[i][1])
                  /\ ObjGet(schema.properties, ins[i][1]) = FirstInsertion(ins, ins[i][1])

(***************************************************************************)
(* Claims about the generator source (SpecGen)                             *)
(***************************************************************************)
IndexBuilt == stage = "index"

Lines(text) == split(text, "\n")

\* the emitted environment lines of the key: `KEY=...`,
EnvLinesOf(text, key) ==
    {l \in SeqToSet(Lines(text)) : startsWith(l, "        " \o Backtick \o key \o "=")}

RECURSIVE removeAll(_, _)
\* s without the occurrences of the literal text t
removeAll(s, t) ==
    IF ~includes(s, t) THEN s
    ELSE LET i == CHOOSE k \in 1..(Len(s) - Len(t) + 1) :
                    /\ SubSeq(s, k, k + Len(t) - 1) = t
                    /\ \A j \in 1..(k - 1) : SubSeq(s, j, j + Len(t) - 1) # t
         IN  SubSeq(s, 1, i - 1) \o removeAll(SubSeq(s, i + Len(t), Len(s)), t)

\* The symbolic cross-service token: the project-name token and the
\* runtime-name field reference of the service, an interpolation of the
\* emitted template literal.  (Whether the "$" of "$(" carries a backslash
\* makes no difference to the literal: it is left out of the comparison.)
SymbolicToken(name) == "(PROJECT_NAME)_${input." \o name \o "ServiceName}"

\* the text after `KEY= of an emitted environment line
LineValue(line, key) == SubSeq(line, Len("        " \o Backtick \o key \o "=") + 1, Len(line))

\* C9: for a database-class service D and another service A with an
\* environment value that contains D's name: D is in databases, a
\* secret-generation statement is emitted for D, and A's emitted environment
\* line refers to D by the symbolic token and nowhere by the literal name.
C9_SymbolicReference ==
    IndexBuilt =>
        \A d \in 1..Len(analysis.databases) :
            LET D == analysis.databases[d]
            IN  /\ ClassesOf(analysis, D) = {"Database"}
                /\ includes(indexTs,
                       "  const " \o sanitizeVarName(D) \o "Password = randomPassword();\n")
                /\ \A a \in 1..Len(compose.services) :
                      LET A == compose.services[a][1]
                          env == ObjectEntries(parseEnvironment(compose.services[a][2].environment))
                      IN  \A e \in 1..Len(env) :
                              (A # D /\ includes(env[e][2], D)) =>
                                  \A line \in EnvLinesOf(indexTs, env[e][1]) :
                                      /\ includes(line, SymbolicToken(D))
                                      /\ ~includes(removeAll(LineValue(line, env[e][1]),
                                                             SymbolicToken(D)), D)

IsInteger(s) == Len(s) > 0 /\ \A i \in 1..Len(s) : CharIn(Char(s, i), DigitChars)

IsHostContainerPort(token) ==
    LET parts == split(token, ":")
    IN  Len(parts) = 2 /\ IsInteger(parts[1]) /\ IsInteger(parts[2])

\* a volume token whose source is a host path
IsBindMountToken(token) ==
    /\ Len(split(token, ":")) >= 2
    /\ \/ startsWith(token, "/")
       \/ startsWith(token, "./")
       \/ startsWith(token, "../")

\* C10 as claimed: a document of one service S with an image I, one port token
\* h:c, one bind-mount volume and no environment gives S the class
\* Application, the required fields projectName, SServiceName (default S),
\* SServiceImage (default I) in that order, and a generator source with exactly
\* one app-type entry, a reachability entry at port c, a manual-review marker
\* for the bind mount and no structured volume entry.
C10_SingleApplication ==
    (/\ IndexBuilt
     /\ Len(compose.services) = 1
     /\ HasImage(compose.services[1][2])
     /\ Len(compose.services[1][2].ports) = 1
     /\ IsHostContainerPort(compose.services[1][2].ports[1])
     /\ Len(compose.services[1][2].volumes) = 1
     /\ IsBindMountToken(compose.services[1][2].volumes[1])
     /\ compose.services[1][2].environment.form = "absent")
    =>
        LET S == compose.services[1][1]
            service == compose.services[1][2]
        IN  /\ ClassesOf(analysis, S) = {"Application"}
            /\ schema.required = <<"projectName", S \o "ServiceName", S \o "ServiceImage">>
            /\ ObjGet(schema.properties, S \o "ServiceName").default = S
            /\ ObjGet(schema.properties, S \o "ServiceImage").default = service.image[1]
            /\ CountOf(indexTs, "  services.push({\n") = 1
            /\ CountOf(indexTs, "    type: \"app\",\n") = 1
            /\ CountOf(indexTs, "      domains: [\n") = 1
            /\ includes(indexTs, "          port: "
                            \o NatToStr(StrToNat(split(service.ports[1], ":")[2])) \o ",\n")
            /\ includes(indexTs, "        // TODO: Handle bind mount: "
                            \o service.volumes[1] \o "\n")
            /\ ~includes(indexTs, "          type: \"volume\",\n")

(***************************************************************************)
(* Claims about convert (Spec)                                             *)
(***************************************************************************)
FiveArtifacts ==
    <<"meta.yaml", "index.ts", "assets/logo.png.placeholder",
      "assets/screenshot.png.placeholder", "CONVERSION_NOTES.md">>

CreatedDir(r) == "ensureDir" \in SeqToSet(r.io)

IsPrefix(short, long) == Len(short) <= Len(long) /\ short = SubSeq(long, 1, Len(short))

\* C5 as claimed: an invocation ends having written all five artifacts, or
\* fails having written none and created no directory.
C5_AllOrNothing ==
    \A p \in Procs :
        /\ run[p].pc = "done" => Written(run[p]) = FiveArtifacts
        /\ run[p].pc = "failed" => Written(run[p]) = <<>> /\ ~CreatedDir(run[p])

\* the failures of convert before generateTemplate is called
EarlyErrors ==
    {"InvalidSlug", "AlreadyExists", "FetchError", "ReadError", "ParseError", "TypeError",
     "EmptyDocument"}

\* C5 (amended): an invocation that succeeds has written all five artifacts;
\* one that fails before generateTemplate is called has written nothing and
\* created no directory; one that fails inside generateTemplate has written
\* the artifacts before the failing step, fewer than five, in the order of
\* the writes, and they stay on disk with the directory: nothing is undone.
C5_NoRollback ==
    \A p \in Procs :
        LET r == run[p]
        IN  /\ r.pc = "done" => Written(r) = FiveArtifacts
            /\ (r.pc = "failed" /\ r.error \in EarlyErrors) =>
                  Written(r) = <<>> /\ ~CreatedDir(r)
            /\ (r.pc = "failed" /\ r.error \notin EarlyErrors) =>
                  /\ IsPrefix(Written(r), FiveArtifacts)
                  /\ Len(Written(r)) < Len(FiveArtifacts)
                  /\ Written(r) # <<>> => CreatedDir(r)
            /\ CreatedDir(r) => r.slug \in dirs
            /\ \A i \in 1..Len(Written(r)) : files[r.slug][Written(r)[i]] # <<>>

\* a failed invocation that leaves the directory and two of the artifacts
C5_Witness ==
    \E p \in Procs :
        /\ run[p].pc = "failed"
        /\ Written(run[p]) = <<"meta.yaml", "index.ts">>
        /\ run[p].slug \in dirs
        /\ files[run[p].slug]["index.ts"] # <<>>
        /\ files[run[p].slug]["CONVERSION_NOTES.md"] = <<>>

\* C6: once a conversion at a slug has succeeded, a conversion at that slug
\* that makes its pre-check afterwards fails with AlreadyExists at the check:
\* it fetches, reads and writes nothing, and every artifact still holds what
\* the first conversion wrote.
C6_SecondRunRejected ==
    \A p \in Procs :
        \A q \in run[p].after :
            /\ run[p].pc = "failed"
            /\ run[p].error = "AlreadyExists"
            /\ run[p].io = <<"pathExists">>
            /\ \A i \in 1..Len(FiveArtifacts) :
                  files[run[q].slug][FiveArtifacts[i]]
                      = <<ArtifactText(run[q], FiveArtifacts[i])>>

C6_Witness ==
    /\ run["r1"].pc = "done"
    /\ run["r2"].after = {"r1"}
    /\ run["r2"].error = "AlreadyExists"
    /\ run["r2"].composePath = "https://example.com/docker-compose.yml"

\* both runs have made the pre-check and neither was stopped by it
BothPassedCheck(p, q) ==
    /\ p # q
    /\ run[p].slug = run[q].slug
    /\ run[p].pc \in {"read", "ensureDir", "write", "done"}
    /\ run[q].pc \in {"read", "ensureDir", "write", "done"}

\* C7: two runs at one slug can both pass the pre-check; from then on no
\* step of either is refused because of the other: a write replaces what the
\* other run wrote, without an error, and when both are done every artifact
\* holds the text of one of the two.
C7_SilentOverwrite ==
    /\ [][\A p, q \in Procs :
            (/\ BothPassedCheck(p, q)
             /\ run[p].pc = "write"
             /\ Len(run'[p].io) = Len(run[p].io) + 1)
            => LET artifact == run'[p].io[Len(run'[p].io)]
               IN  /\ files'[run[p].slug][artifact] = <<ArtifactText(run[p], artifact)>>
                   /\ run'[p].error = ""]_vars
    /\ [](\A p, q \in Procs :
            (BothPassedCheck(p, q) /\ run[p].pc = "done" /\ run[q].pc = "done") =>
                \A i \in 1..Len(FiveArtifacts) :
                    files[run[p].slug][FiveArtifacts[i]]
                        \in {<<ArtifactText(run[p], FiveArtifacts[i])>>,
                             <<ArtifactText(run[q], FiveArtifacts[i])>>})

\* both runs succeeded at one slug with different documents, and what r1
\* wrote as index.ts is gone
C7_Witness ==
    /\ run["r1"].pc = "done"
    /\ run["r2"].pc = "done"
    /\ run["r1"].slug = run["r2"].slug
    /\ run["r1"].error = "" /\ run["r2"].error = ""
    /\ run["r1"].compose # run["r2"].compose
    /\ files[run["r1"].slug]["index.ts"] = <<ArtifactText(run["r2"], "index.ts")>>
    /\ files[run["r1"].slug]["index.ts"] # <<ArtifactText(run["r1"], "index.ts")>>

Started(r) == r.pc # "idle"

OnlySlugChars(slug) ==
    \A i \in 1..Len(slug) : Char(slug, i) \in
        {"a", "b", "c", "d", "e", "f", "g", "h", "i", "j", "k", "l", "m", "n", "o", "p", "q",
         "r", "s", "t", "u", "v", "w", "x", "y", "z", "0", "1", "2", "3", "4", "5", "6", "7",
         "8", "9", "-"}

\* C8: convert fails with InvalidSlug exactly when the slug is empty or holds
\* a character outside a-z, 0-9 and "-" (My_App and app! are rejected,
\* my-app2 is accepted), and then it has checked, read and written nothing.
C8_SlugValidation ==
    \A p \in Procs :
        Started(run[p]) =>
            /\ run[p].error = "InvalidSlug"
                  <=> (run[p].slug = "" \/ ~OnlySlugChars(run[p].slug))
            /\ run[p].slug \in {"My_App", "app!"} => run[p].error = "InvalidSlug"
            /\ run[p].slug = "my-app2" => run[p].error # "InvalidSlug"
            /\ run[p].error = "InvalidSlug" =>
                  /\ run[p].pc = "failed"
                  /\ run[p].io = <<>>
                  /\ run[p].slug \notin dirs
                  /\ files[run[p].slug] = NoFiles

C8_Witness ==
    /\ run["r1"].slug = "My_App" /\ run["r1"].error = "InvalidSlug"
    /\ run["r2"].slug = "my-app2" /\ run["r2"].pc = "done"

(***************************************************************************)
(* Claims about the declarations of the generator source (SpecGen)         *)
(***************************************************************************)
\* the line of a declaration that names the declared service
DeclarationLines(text) ==
    SelectSeq(Lines(text), LAMBDA l : startsWith(l, "      serviceName: input."))

\* the names of a class in the order the document declares them
DocumentOrder(cmp, an, class) ==
    SelectSeq(ObjKeys(cmp.services), LAMBDA n : ClassesOf(an, n) = {class})

ExpectedDeclarations(cmp, an) ==
    DocumentOrder(cmp, an, "Database") \o DocumentOrder(cmp, an, "Application")
        \o DocumentOrder(cmp, an, "Other")

\* C11 as claimed: the generator source holds exactly one services.push
\* statement per declared service, and the declarations come databases
\* first, then applications, then others, each group in document order.
C11_DeclarationOrder ==
    IndexBuilt =>
        LET L == Lines(indexTs)
            D == DeclarationLines(indexTs)
            E == ExpectedDeclarations(compose, analysis)
        IN  /\ CountOf(indexTs, "  services.push({\n") = Len(compose.services)
            /\ \A k \in 1..Len(L) :
                  L[k] = "  services.push({" =>
                      startsWith(L[k + 3], "      serviceName: input.")
            /\ Len(D) = Len(E)
            /\ \A i \in 1..Len(D) :
                  D[i] = "      serviceName: input." \o E[i] \o "ServiceName,"

(***************************************************************************)
(* Claims about the normalizers (SpecGen)                                  *)
(***************************************************************************)
\* the sequence form of a mapping: one KEY=VALUE token per entry, in order
TokensOf(entries) ==
    [i \in 1..Len(entries) |-> entries[i][1] \o "=" \o String(entries[i][2])]

\* C12 as claimed: parseEnvironment returns the same ordered mapping for the
\* mapping form of an environment and for the sequence of KEY=VALUE tokens
\* that lists the same keys and values in the same order.
C12_SameForBothForms ==
    SchemaBuilt =>
        \A i \in 1..Len(compose.services) :
            LET env == compose.services[i][2].environment
            IN  env.form = "map" =>
                    ObjectEntries(parseEnvironment(env))
                        = ObjectEntries(parseEnvironment(EnvList(TokensOf(env.entries))))

(***************************************************************************)
(* Claims about the runs of the emitter (Spec)                             *)
(***************************************************************************)
WroteIndexTs(r) == "index.ts" \in SeqToSet(Written(r))

\* C13: two runs of generateIndexTs over the same compose document produce
\* the same text, byte for byte: what two invocations given one document
\* wrote as index.ts at two slugs is equal.
C13_Deterministic ==
    \A p, q \in Procs :
        (/\ WroteIndexTs(run[p]) /\ WroteIndexTs(run[q])
         /\ run[p].slug # run[q].slug
         /\ run[p].compose = run[q].compose)
        => files[run[p].slug]["index.ts"] = files[run[q].slug]["index.ts"]

C13_Witness ==
    /\ run["r1"].pc = "done" /\ run["r2"].pc = "done"
    /\ run["r1"].slug # run["r2"].slug
    /\ run["r1"].compose = ApiDocument /\ run["r2"].compose = ApiDocument
    /\ files[run["r1"].slug]["index.ts"] = files[run["r2"].slug]["index.ts"]
    /\ files[run["r1"].slug]["index.ts"] # <<"">>

(***************************************************************************)
(* Claims about the failures of convert (Spec)                             *)
(***************************************************************************)
\* the text parsed to nothing, to a mapping without services, or to a
\* mapping whose services mapping has no entries
NothingToTranslate(r) ==
    \/ r.parse \in {"null", "noServices"}
    \/ r.parse = "document" /\ Len(r.compose.services) = 0

\* C14 as claimed: when the parsed document has no services mapping, or the
\* mapping has no entries, or the document parsed to nothing at all, convert
\* fails with EmptyDocument, before any analysis and before anything is
\* written.
C14_EmptyDocument ==
    \A p \in Procs :
        NothingToTranslate(run[p]) =>
            /\ run[p].pc = "failed"
            /\ run[p].error = "EmptyDocument"
            /\ run[p].analysis = EmptyAnalysis
            /\ Written(run[p]) = <<>>
            /\ ~CreatedDir(run[p])

\* an environment token that is no KEY=VALUE text
MalformedEnvToken(t) == ~IsString(t) \/ ~CharIn("=", t)

\* a volume token that is no source:target text
UnrecognizedVolumeToken(t) == ~IsString(t) \/ Len(split(t, ":")) < 2

\* a port token that is neither host:container nor one number
UnparsablePortToken(t) == ~IsString(t) \/ ~(IsHostContainerPort(t) \/ IsInteger(t))

HasUnrecognizedToken(cmp) ==
    \E i \in 1..Len(cmp.services) :
        LET service == cmp.services[i][2]
        IN  \/ /\ service.environment.form = "list"
               /\ \E k \in 1..Len(service.environment.items) :
                      MalformedEnvToken(service.environment.items[k])
            \/ \E k \in 1..Len(service.volumes) : UnrecognizedVolumeToken(service.volumes[k])
            \/ \E k \in 1..Len(service.ports) : UnparsablePortToken(service.ports[k])

\* C15 as claimed: a malformed environment token, an unrecognized volume
\* token or an unparsable port token never makes the invocation fail: an
\* invocation over such a document fails only when the disk refuses a step,
\* and one that ends has written the five artifacts, the notes included.
C15_TokensNeverFatal ==
    \A p \in Procs :
        (run[p].parse = "document" /\ HasUnrecognizedToken(run[p].compose)) =>
            /\ run[p].pc = "failed" => run[p].error = "WriteError"
            /\ run[p].pc = "done" =>
                  /\ Written(run[p]) = FiveArtifacts
                  /\ files[run[p].slug]["CONVERSION_NOTES.md"] # <<>>

(***************************************************************************)
(* Claims about the database declarations and the rewriting (SpecGen)      *)
(***************************************************************************)
\* the lines of the declaration of a service: the services.push statement
\* whose fourth line names the service, up to the line that closes it
DeclarationOf(text, name) ==
    LET L == Lines(text)
        first == CHOOSE k \in 1..Len(L) :
                    L[k] = "      serviceName: input." \o name \o "ServiceName,"
        last == CHOOSE k \in first..Len(L) :
                    L[k] = "  });" /\ \A j \in first..(k - 1) : L[j] # "  });"
    IN  SubSeq(L, first - 3, last)

\* C16 as claimed: the declaration emitted for a database-class service
\* carries its runtime-name reference and its generated secret, the password
\* variable; so for every service of analysis.databases, one matched by the
\* elasticsearch keyword or by its name alone included.
C16_DatabaseCarriesSecret ==
    IndexBuilt =>
        \A d \in 1..Len(analysis.databases) :
            LET D == analysis.databases[d]
                block == DeclarationOf(indexTs, D)
            IN  /\ block[1] = "  services.push({"
                /\ block[4] = "      serviceName: input." \o D \o "ServiceName,"
                /\ \E k \in 1..Len(block) :
                      includes(block[k], sanitizeVarName(D) \o "Password")

\* the value of the emitted environment line of key in a declaration, without
\* the backslashes of the escaping step
EmittedValue(block, key) ==
    LET prefix == "        " \o Backtick \o key \o "="
        line == block[CHOOSE k \in 1..Len(block) : startsWith(block[k], prefix)]
    IN  removeAll(SubSeq(line, Len(prefix) + 1, Len(line) - 2), "\\")

RECURSIVE removeRefs(_, _)
\* text without the symbolic references of the names
removeRefs(text, names) ==
    IF Len(names) = 0 THEN text
    ELSE removeRefs(removeAll(text, serviceRef(Head(names))), Tail(names))

\* no declared name is part of another declared name
OverlapFree(names) ==
    \A i, j \in 1..Len(names) : i # j => ~includes(names[i], names[j])

\* C17 as claimed: in an emitted environment value every literal occurrence
\* of a declared service name N, of any service of the document, is replaced
\* by $(PROJECT_NAME)_${input.NServiceName}; N is matched as literal text
\* only; a value that holds no declared name is left as it was.
C17_LiteralRewrite ==
    (IndexBuilt /\ OverlapFree(ObjKeys(compose.services))) =>
        \A a \in 1..Len(compose.services) :
            LET A == compose.services[a][1]
                names == ObjKeys(compose.services)
                env == ObjectEntries(parseEnvironment(compose.services[a][2].environment))
                block == DeclarationOf(indexTs, A)
            IN  (\E k \in 1..Len(block) : block[k] = "      env: [") =>
                    \A e \in 1..Len(env) :
                        LET value == String(env[e][2])
                            emitted == EmittedValue(block, env[e][1])
                        IN  /\ \A n \in 1..Len(names) :
                                  IF includes(value, names[n])
                                  THEN /\ includes(emitted, serviceRef(names[n]))
                                       /\ ~includes(removeRefs(emitted, names), names[n])
                                  ELSE ~includes(emitted, serviceRef(names[n]))
                            /\ (\A n \in 1..Len(names) : ~includes(value, names[n]))
                                  => emitted = value

(***************************************************************************)
(* Claims about parseVolume and parsePort (SpecGen)                        *)
(***************************************************************************)
\* the text of a volume token before its first ":"
SourcePart(token) == split(token, ":")[1]

HostPathSource(source) ==
    startsWith(source, "/") \/ startsWith(source, "./") \/ startsWith(source, "../")

HasMounts(block) == \E k \in 1..Len(block) : block[k] = "      mounts: ["

BindMarker(token) == "        // TODO: Handle bind mount: " \o token

VolumeEntryName(name) == "          name: \"" \o name \o "\","

\* C18 as claimed: parseVolume makes a token a bind mount exactly when its
\* source, the text before the first ":", begins with "/", "./" or "../";
\* every other source is a named volume whose name is the source.  In the
\* generator source the one is a manual-review marker, the other a volume
\* entry under the name of the source.
C18_BindMountRule ==
    IndexBuilt =>
        \A a \in 1..Len(compose.services) :
            LET service == compose.services[a][2]
                block == DeclarationOf(indexTs, compose.services[a][1])
            IN  \A v \in 1..Len(service.volumes) :
                    LET token == service.volumes[v]
                        source == SourcePart(token)
                    IN  Len(split(token, ":")) >= 2 =>
                            /\ parseVolume(token).type = "bind" <=> HostPathSource(source)
                            /\ parseVolume(token).type = "volume" =>
                                    parseVolume(token).name = source
                            /\ HasMounts(block) =>
                                  IF HostPathSource(source)
                                  THEN /\ BindMarker(token) \in SeqToSet(block)
                                       /\ VolumeEntryName(source) \notin SeqToSet(block)
                                  ELSE /\ VolumeEntryName(source) \in SeqToSet(block)
                                       /\ BindMarker(token) \notin SeqToSet(block)

MountPathEntry(path) == "          mountPath: \"" \o path \o "\","

\* C19 as claimed: a volume token of fewer than two ":"-separated parts is an
\* unrecognized mount: the generator source reports it verbatim in a comment
\* for manual handling and holds no structured volume entry made up for it,
\* neither an invented name nor a mount path.
C19_UnrecognizedMount ==
    IndexBuilt =>
        \A a \in 1..Len(compose.services) :
            LET service == compose.services[a][2]
                block == DeclarationOf(indexTs, compose.services[a][1])
            IN  \A v \in 1..Len(service.volumes) :
                    LET token == service.volumes[v]
                    IN  (Len(split(token, ":")) < 2 /\ HasMounts(block)) =>
                            /\ \E k \in 1..Len(block) :
                                  includes(block[k], "// ") /\ includes(block[k], token)
                            /\ VolumeEntryName("unknown") \notin SeqToSet(block)
                            /\ MountPathEntry(token) \notin SeqToSet(block)

\* host:container with two integers, or one bare integer
PortShape(token) == IsHostContainerPort(token) \/ IsInteger(token)

\* the decimal text of the integer a part of a port token writes
IntegerOf(part) == NatToStr(StrToNat(part))

IsAppDeclaration(block) == \E k \in 1..Len(block) : block[k] = "    type: \"app\","

\* C20 as claimed: parsePort returns a binding only for a token host:container
\* of two integers (hostPort and containerPort those integers) or for one
\* bare integer p (both ports p); for every other token it returns no
\* binding, so the containerPort of a binding is an integer, and a
\* reachability entry is emitted only with such a port.
C20_PortBinding ==
    IndexBuilt =>
        \A a \in 1..Len(compose.services) :
            LET service == compose.services[a][2]
                block == DeclarationOf(indexTs, compose.services[a][1])
            IN  /\ \A k \in 1..Len(service.ports) :
                      LET token == service.ports[k]
                          parts == split(token, ":")
                          binding == parsePort(token)
                      IN  IsString(token) =>
                              /\ binding # <<>> <=> PortShape(token)
                              /\ binding # <<>> =>
                                    /\ IsInteger(binding[1].containerPort)
                                    /\ binding[1].hostPort = IntegerOf(parts[1])
                                    /\ binding[1].containerPort = IntegerOf(parts[Len(parts)])
                /\ (IsAppDeclaration(block) /\ Len(service.ports) > 0) =>
                      LET parts == split(service.ports[1], ":")
                      IN  IF PortShape(service.ports[1])
                          THEN ("          port: " \o IntegerOf(parts[Len(parts)]) \o ",")
                                  \in SeqToSet(block)
                          ELSE \A k \in 1..Len(block) : ~startsWith(block[k], "          port: ")

(***************************************************************************)
(* Claims about the reachability entry (SpecGen)                           *)
(***************************************************************************)
\* the port tokens of a service that give a binding, in declared order
BindingTokens(service) == SelectSeq(service.ports, LAMBDA t : parsePort(t) # <<>>)

PortLines(block) == SelectSeq(block, LAMBDA l : startsWith(l, "          port: "))

\* C21 as claimed: the declaration of a service holds a reachability
\* (domains) entry exactly when at least one of its port tokens gives a
\* binding; the port of the entry is the container port of the first port
\* binding; a declaration holds at most one such entry.
C21_ReachabilityEntry ==
    IndexBuilt =>
        \A a \in 1..Len(compose.services) :
            LET service == compose.services[a][2]
                block == DeclarationOf(indexTs, compose.services[a][1])
                bindings == BindingTokens(service)
            IN  IsAppDeclaration(block) =>
                    /\ Len(PortLines(block)) <= 1
                    /\ Len(PortLines(block)) = 1 <=> Len(bindings) > 0
                    /\ Len(bindings) > 0 =>
                          PortLines(block)
                              = <<"          port: "
                                    \o parsePort(bindings[1])[1].containerPort \o ",">>

(***************************************************************************)
(* Claims about the secrets (SpecGen)                                      *)
(***************************************************************************)
SecretStatement(name) == "  const " \o sanitizeVarName(name) \o "Password = randomPassword();"

IsSecretStatement(line) ==
    startsWith(line, "  const ") /\ includes(line, "Password = randomPassword();")

\* the positions of the lines of a text that satisfy a test
PositionsOf(L, Test(_)) == {k \in 1..Len(L) : Test(L[k])}

IsPushLine(line) == line = "  services.push({"

IsEnvLine(line) == startsWith(line, "        " \o Backtick)

PasswordLines(block) == SelectSeq(block, LAMBDA l : startsWith(l, "      password: "))

\* C22 as claimed: one secret-generation statement is emitted per
\* database-class service, in document order; all of them come before every
\* service declaration and every rewritten environment value; and the
\* secret a declaration carries is the one bound to the name at the start.
C22_SecretsFirst ==
    IndexBuilt =>
        LET L == Lines(indexTs)
            dbs == DocumentOrder(compose, analysis, "Database")
        IN  /\ SelectSeq(L, IsSecretStatement) = [i \in 1..Len(dbs) |-> SecretStatement(dbs[i])]
            /\ \A i \in PositionsOf(L, IsSecretStatement) :
                  /\ \A j \in PositionsOf(L, IsPushLine) : i < j
                  /\ \A j \in PositionsOf(L, IsEnvLine) : i < j
            /\ \A d \in 1..Len(dbs) :
                  \A k \in 1..Len(PasswordLines(DeclarationOf(indexTs, dbs[d]))) :
                      PasswordLines(DeclarationOf(indexTs, dbs[d]))[k]
                          = "      password: " \o sanitizeVarName(dbs[d]) \o "Password,"

(***************************************************************************)
(* Claims about the fields of the schema (SpecGen)                         *)
(***************************************************************************)
RECURSIVE RequiredOf(_, _)
\* the required names of the services, in the order given
RequiredOf(names, services) ==
    IF Len(names) = 0 THEN <<>>
    ELSE <<Head(names) \o "ServiceName">>
            \o (IF HasImage(ObjGet(services, Head(names)))
                THEN <<Head(names) \o "ServiceImage">> ELSE <<>>)
            \o RequiredOf(Tail(names), services)

\* C23 as claimed: required is projectName (a string without default), then
\* for each service, databases first, then applications, then others, in
\* document order within a group, <name>ServiceName (a string, default the
\* declared name) and, only with an image, <name>ServiceImage (a string,
\* default the image); it holds no name twice and only keys of properties.
C23_RequiredFields ==
    SchemaBuilt =>
        LET names == ExpectedDeclarations(compose, analysis)
        IN  /\ schema.required = <<"projectName">> \o RequiredOf(names, compose.services)
            /\ ObjGet(schema.properties, "projectName")
                  = [type |-> "string", title |-> "Project Name"]
            /\ NoDuplicates(schema.required)
            /\ \A i \in 1..Len(schema.required) :
                  ObjHas(schema.properties, schema.required[i])
            /\ \A i \in 1..Len(names) :
                  LET service == ObjGet(compose.services, names[i])
                  IN  /\ ObjGet(schema.properties, names[i] \o "ServiceName").type = "string"
                      /\ ObjGet(schema.properties, names[i] \o "ServiceName").default
                            = names[i]
                      /\ HasImage(service) =>
                            /\ ObjGet(schema.properties, names[i] \o "ServiceImage").type
                                  = "string"
                            /\ ObjGet(schema.properties, names[i] \o "ServiceImage").default
                                  = service.image[1]

\* the key is inserted once while the schema is built
InsertedOnce(ins, key) == Cardinality({i \in 1..Len(ins) : ins[i][1] = key}) = 1

\* C24 as claimed: for every normalized environment entry (K, V) of every
\* service S the schema has a property S_K of type string with the title
\* "S: K" and the default V, and S_K is not in required.
C24_EveryEnvField ==
    SchemaBuilt =>
        \A a \in 1..Len(compose.services) :
            LET S == compose.services[a][1]
                env == ObjectEntries(parseEnvironment(compose.services[a][2].environment))
            IN  \A e \in 1..Len(env) :
                    LET key == S \o "_" \o env[e][1]
                    IN  /\ ObjHas(schema.properties, key)
                        /\ ObjGet(schema.properties, key)
                              = Property(S \o ": " \o env[e][1], String(env[e][2]))
                        /\ key \notin SeqToSet(schema.required)

\* C24 (amended): for every normalized environment entry (K, V) of a service
\* S whose key S_K no other field of the schema shares (no name field, image
\* field or environment field of any service is inserted under S_K as well),
\* the schema has a property S_K of type string with the title "S: K" and
\* the text of V as default, and S_K is not in required.
C24_EnvFields ==
    SchemaBuilt =>
        LET ins == FieldInsertions(allServicesOf(analysis), compose.services)
        IN  \A a \in 1..Len(compose.services) :
                LET S == compose.services[a][1]
                    env == ObjectEntries(parseEnvironment(compose.services[a][2].environment))
                IN  \A e \in 1..Len(env) :
                        LET key == S \o "_" \o env[e][1]
                        IN  InsertedOnce(ins, key) =>
                                /\ ObjHas(schema.properties, key)
                                /\ ObjGet(schema.properties, key)
                                      = Property(S \o ": " \o env[e][1], String(env[e][2]))
                                /\ key \notin SeqToSet(schema.required)

\* a holds b_C and a_b holds C: the key a_b_C is shared, the keys a_D and
\* a_b_D are not, and a_b_D has the value with its second "="
C24_Witness ==
    /\ SchemaBuilt
    /\ ObjKeys(compose.services) = <<"a", "a_b">>
    /\ \A k \in {"a_b_C", "a_D", "a_b_D"} : ObjHas(schema.properties, k)
    /\ ObjGet(schema.properties, "a_b_C").title = "a_b: C"
    /\ ObjGet(schema.properties, "a_D").default = "d"
    /\ ObjGet(schema.properties, "a_b_D").default = "p=q"
    /\ schema.required = <<"projectName", "aServiceName", "aServiceImage",
                           "a_bServiceName", "a_bServiceImage">>

\* the text of the token before its first "=", all of it when it has none
KeyOfToken(t) ==
    LET i == IndexOfChar(t, "=") IN IF i = 0 THEN t ELSE SubSeq(t, 1, i - 1)

\* the text of the token after its first "=", empty when it has none
ValueOfToken(t) ==
    LET i == IndexOfChar(t, "=") IN IF i = 0 THEN "" ELSE SubSeq(t, i + 1, Len(t))

\* C25 as claimed: parseEnvironment on the sequence form never fails, and it
\* splits each token at its first "=" only: the mapping has exactly the keys
\* that are the texts before it, each with everything after it as value (of
\* the last token with that key), further "=" included, and a token without
\* "=" is a key with the empty string as value.
C25_FirstEqualsSplit ==
    Analyzed =>
        \A a \in 1..Len(compose.services) :
            LET env == compose.services[a][2].environment
                result == parseEnvironment(env)
            IN  env.form = "list" =>
                    /\ ~parseEnvironmentThrows(env)
                    /\ SeqToSet(ObjKeys(result))
                          = {KeyOfToken(String(env.items[i])) : i \in 1..Len(env.items)}
                    /\ \A i \in 1..Len(env.items) :
                           LET t == String(env.items[i])
                           IN  (\A j \in (i + 1)..Len(env.items) :
                                    KeyOfToken(String(env.items[j])) # KeyOfToken(t))
                                   => ObjGet(result, KeyOfToken(t)) = ValueOfToken(t)

(***************************************************************************)
(* Claims about the escaping of environment values (SpecGen)               *)
(***************************************************************************)
\* the text of the emitted environment line of key in a declaration, between
\* the "KEY=" that opens it and the backtick that closes it
RawValue(block, key) ==
    LET prefix == "        " \o Backtick \o key \o "="
        line == block[CHOOSE k \in 1..Len(block) : startsWith(block[k], prefix)]
    IN  SubSeq(line, Len(prefix) + 1, Len(line) - 2)

EscapedChars == {Backtick, "$"}

\* the positions of the backslashes in front of a backtick or a "$"
InsertedAt(x) ==
    {i \in 1..(Len(x) - 1) : Char(x, i) = "\\" /\ Char(x, i + 1) \in EscapedChars}

\* x without the one backslash in front of each backtick and each "$" is text
UnescapesTo(x, text) ==
    LET gone == InsertedAt(x)
    IN  /\ Len(text) = Len(x) - Cardinality(gone)
        /\ \A p \in (1..Len(x)) \ gone :
               Char(text, p - Cardinality({r \in gone : r < p})) = Char(x, p)

\* the reference of a service as the escaping step leaves it
EscapedRef(name) == "\\$(PROJECT_NAME)_\\${input." \o name \o "ServiceName}"

\* the text interpolateEnvValue escapes: the value after the replacements
TextToEscape(value, an) ==
    replaceDbNames(String(value), ObjectEntries(passwordBindings(an.databases, <<>>)))

\* C26: in every emitted environment value each backtick and each "$" has a
\* backslash in front of it, the emitted text is longer than the text that was
\* escaped by exactly one character per backtick and "$" of that text, and
\* taking those backslashes away gives back the text that was escaped.
C26_EscapeRoundTrip ==
    IndexBuilt =>
        \A a \in 1..Len(compose.services) :
            LET A == compose.services[a][1]
                env == ObjectEntries(parseEnvironment(compose.services[a][2].environment))
                block == DeclarationOf(indexTs, A)
            IN  (\E k \in 1..Len(block) : block[k] = "      env: [") =>
                    \A e \in 1..Len(env) :
                        LET text == TextToEscape(env[e][2], analysis)
                            emitted == RawValue(block, env[e][1])
                        IN  /\ \A i \in 1..Len(emitted) :
                                  Char(emitted, i) \in EscapedChars =>
                                      i > 1 /\ Char(emitted, i - 1) = "\\"
                            /\ Len(emitted) = Len(text)
                                  + Cardinality({i \in 1..Len(text) :
                                                    Char(text, i) \in EscapedChars})
                            /\ UnescapesTo(emitted, text)

\* the value with two backticks and a "$" and the value with backslashes are
\* emitted, each backtick and "$" behind one more backslash
C26_Witness ==
    /\ IndexBuilt
    /\ ObjKeys(compose.services) = <<"job">>
    /\ includes(indexTs, Backtick \o "CMD=\\^id\\^ \\$HOME" \o Backtick \o ",\n")
    /\ includes(indexTs, Backtick \o "WIN=c:\\tmp\\\\$x\\$\\$" \o Backtick \o ",\n")

\* ${input.<name>ServiceName}, the field reference of a service
FieldRef(name) == "${input." \o name \o "ServiceName}"

\* the positions of the literal text t in s
Occurrences(s, t) == {i \in 1..(Len(s) - Len(t) + 1) : SubSeq(s, i, i + Len(t) - 1) = t}

\* C27 as claimed: in an emitted environment line every field reference
\* ${input.<name>ServiceName} that the rewriting inserted for a database
\* service is an active interpolation: its "$" has no backslash in front of it.
C27_ActiveReference ==
    IndexBuilt =>
        \A a \in 1..Len(compose.services) :
            LET A == compose.services[a][1]
                env == ObjectEntries(parseEnvironment(compose.services[a][2].environment))
                block == DeclarationOf(indexTs, A)
            IN  (\E k \in 1..Len(block) : block[k] = "      env: [") =>
                    \A e \in 1..Len(env) :
                        \A d \in 1..Len(analysis.databases) :
                            LET emitted == RawValue(block, env[e][1])
                            IN  \A i \in Occurrences(emitted, FieldRef(analysis.databases[d])) :
                                    ~(i > 1 /\ Char(emitted, i - 1) = "\\")

(***************************************************************************)
(* Claims about the names of the secrets (SpecGen)                         *)
(***************************************************************************)
\* C28 as claimed: the generator source declares one password constant per
\* database-class service and never the same constant twice: two different
\* database names are bound to two different variable names.
C28_DistinctSecretNames ==
    IndexBuilt =>
        LET L == Lines(indexTs)
            secrets == PositionsOf(L, IsSecretStatement)
            bound == ObjectEntries(passwordBindings(analysis.databases, <<>>))
        IN  /\ Cardinality(secrets) = Len(analysis.databases)
            /\ \A i, j \in secrets : i # j => L[i] # L[j]
            /\ \A i, j \in 1..Len(bound) : i # j => bound[i][2] # bound[j][2]

\* the entries in the opposite order
Reversed(entries) == [i \in 1..Len(entries) |-> entries[Len(entries) + 1 - i]]

\* C29 as claimed: in an emitted environment value the reference inserted
\* for a database service whose name the value holds is intact, not changed by
\* the replacement for another database service, and the value is the one
\* the replacements give when the database services are taken in the
\* opposite order.
C29_OrderIndependent ==
    IndexBuilt =>
        \A a \in 1..Len(compose.services) :
            LET A == compose.services[a][1]
                env == ObjectEntries(parseEnvironment(compose.services[a][2].environment))
                block == DeclarationOf(indexTs, A)
                bound == ObjectEntries(passwordBindings(analysis.databases, <<>>))
            IN  (\E k \in 1..Len(block) : block[k] = "      env: [") =>
                    \A e \in 1..Len(env) :
                        LET value == String(env[e][2])
                            emitted == RawValue(block, env[e][1])
                        IN  /\ \A d \in 1..Len(bound) :
                                  includes(value, bound[d][1])
                                      => includes(emitted, EscapedRef(bound[d][1]))
                            /\ UnescapesTo(emitted, replaceDbNames(value, Reversed(bound)))

(***************************************************************************)
(* Claims that join the schema and the generator source (SpecGen)          *)
(***************************************************************************)
\* the characters an identifier name of the generated TypeScript is made of
IdentifierChars == "abcdefghijklmnopqrstuvwxyzABCDEFGHIJKLMNOPQRSTUVWXYZ0123456789_$"

\* the lines of the generator source that read a field of input: the
\* environment lines are text of a template literal and read nothing
ReadsInput(line) ==
    \/ startsWith(line, "      serviceName: input.")
    \/ startsWith(line, "        image: input.")

\* the field the expression input.<text> of the line reads: the member name
\* ends at the first character that cannot be part of an identifier name
FieldRead(line) ==
    LET at == CHOOSE i \in Occurrences(line, "input.") :
                  \A j \in Occurrences(line, "input.") : i <= j
        rest == SubSeq(line, at + 6, Len(line))
        n == CHOOSE k \in 0..Len(rest) :
                 /\ \A c \in 1..k : CharIn(Char(rest, c), IdentifierChars)
                 /\ k < Len(rest) => ~CharIn(Char(rest, k + 1), IdentifierChars)
    IN  SubSeq(rest, 1, n)

\* C30 as claimed: every field the generator source reads from input, in a
\* serviceName line or an image line of any declaration, is a key of the
\* properties of the schema made from the same document.
C30_ReadsAreFields ==
    IndexBuilt =>
        \A k \in PositionsOf(Lines(indexTs), ReadsInput) :
            ObjHas(schema.properties, FieldRead(Lines(indexTs)[k]))

====
